---------------------------- MODULE Spec2Model ----------------------------
(***************************************************************************)
(* Sleep temperature monitor (The_arduino_temp_code.cpp).                  *)
(*                                                                         *)
(* The sketch is a single polling loop.  Its state is the three globals    *)
(* currentState, systemMuted, lastAlertTime, the dashboard stamp           *)
(* lastSerialUpdate, and the millisecond clock millis().  One step of the  *)
(* model is one whole call of loop().  What the environment supplied to    *)
(* that call (button level, sensor sample) and what the call sent to the   *)
(* buzzer and to the serial line are kept in the state so that properties  *)
(* of a cycle can be stated.                                               *)
(*                                                                         *)
(* Temperatures are fixed-point hundredths of a degree; NaN stands for the *)
(* float NaN the DHT library returns on a failed read, and every           *)
(* comparison with it is false, as in C.                                   *)
(* Clock values are unsigned long: 32 bits, wrapping.                      *)
(*                                                                         *)
(* Timing: clock time passes in delay() and in the sensor read; the rest   *)
(* of the code takes no clock time.                                        *)
(***************************************************************************)
EXTENDS Integers, Sequences, FiniteSets

VARIABLES
  currentState,      \* AlertState currentState
  systemMuted,       \* bool systemMuted
  lastAlertTime,     \* unsigned long lastAlertTime
  lastSerialUpdate,  \* unsigned long lastSerialUpdate
  clock,             \* millis() at the start of the next loop() call
  now,               \* loop()'s local `now` of the last unmuted cycle
  button,            \* level of BUTTON_PIN read by the last cycle
  temperature,       \* temperature supplied by the sensor in the last cycle
  humidity,          \* humidity supplied by the sensor in the last cycle
  buzzerCmds,        \* commands sent to BUZZER_PIN by the last cycle
  serial,            \* lines printed by the last cycle
  lastTone,          \* the tone the buzzer played last
  buzzer,            \* what the buzzer is doing at the end of the last cycle
  pressed,           \* whether the button, high when the last cycle read
                     \* it, was pressed and released inside that cycle's waits
  held,              \* whether the button is held low from now on
  epoch,             \* millis() when the modelled run began
  mutedCycles,       \* how many cycles have run muted (bounds the model)
  scenario,          \* how many cycles of the end-to-end scenario have just run
  afterNear,         \* whether the cycle before the last one sounded the long beep
  pc                 \* "loop": the sketch runs; "call"/"done": a single
                     \* function is about to be called / has been called

vars == <<currentState, systemMuted, lastAlertTime, lastSerialUpdate, clock,
          now, button, temperature, humidity, buzzerCmds, serial, lastTone,
          buzzer, pressed, held, epoch, mutedCycles, scenario, afterNear,
          pc>>

-----------------------------------------------------------------------------
(* Program constants *)

ALERT_INTERVAL == 5000
SERIAL_REFRESH == 1000
TEMP_OPTIMAL_LOW == 22
TEMP_OPTIMAL_HIGH == 24
TEMP_NEAR_LOW == 20
TEMP_NEAR_HIGH == 26
TEMP_CLOSE == 25

MUTED_DELAY == 500
SENSOR_FAIL_DELAY == 2000
CYCLE_DELAY == 300
LONG_BEEP_DELAY == 5000
TONE_DURATION == 200

AlertState == {"IDLE", "OPTIMAL", "CLOSE", "NEAR", "MUTE"}

LOW == "LOW"
HIGH == "HIGH"

\* A float is <<"num", v>>, v in hundredths (2300 is 23.00), or the NaN below
NaN == <<"nan", 0>>
Centi(v) == <<"num", v>>
Deg(n) == Centi(n * 100)

\* An unsigned long is 32 bits.  It is kept as two 16-bit limbs <<high, low>>,
\* so that values up to 2^32 - 1 and their wrapping can be computed.
Limb == 2^16
U32(n) == <<(n \div Limb) % Limb, n % Limb>>
ULONG_MAX == <<Limb - 1, Limb - 1>>

-----------------------------------------------------------------------------
(* Bounds of the model *)

\* loop() is not entered once MaxClock milliseconds of the run have passed
MaxClock == 14100

\* at most MaxMutedCycles cycles run after the mute button was pressed
MaxMutedCycles == 2

\* clock time one sensor read may take: with the post-cycle delay a cycle
\* lasts 999 or 1000 ms, so calls ALERT_INTERVAL - 1 and ALERT_INTERVAL after
\* an alert both occur
SensorReadTimes == {699, 700}

\* samples the sensor may supply to a cycle
Temperatures == {Deg(23), Deg(25), Deg(21), Deg(30), NaN}
Humidities == {Deg(50), NaN}
ButtonLevels == {LOW, HIGH}

-----------------------------------------------------------------------------
(* unsigned long arithmetic *)

\* a + b and a - b modulo 2^32
Add32(a, b) ==
  LET low == a[2] + b[2]
      high == a[1] + b[1] + (low \div Limb)
  IN <<high % Limb, low % Limb>>
Sub32(a, b) ==
  LET low == a[2] - b[2]
      high == a[1] - b[1] - (IF low < 0 THEN 1 ELSE 0)
  IN <<(high + Limb) % Limb, (low + Limb) % Limb>>
\* a >= b and a < b, unsigned
Ge32(a, b) == a[1] > b[1] \/ (a[1] = b[1] /\ a[2] >= b[2])
Lt32(a, b) == ~Ge32(a, b)

(* float comparisons with an integer number n of degrees: false when the *)
(* float is NaN                                                          *)
isnan(x) == x[1] = "nan"
FGe(x, n) == ~isnan(x) /\ x[2] >= n * 100
FLe(x, n) == ~isnan(x) /\ x[2] <= n * 100
FGt(x, n) == ~isnan(x) /\ x[2] > n * 100
FLt(x, n) == ~isnan(x) /\ x[2] < n * 100
FEq(x, n) == ~isnan(x) /\ x[2] = n * 100

-----------------------------------------------------------------------------
(* The program state as one record, and the functions of the sketch as     *)
(* transformers of that record.                                            *)

State == [currentState |-> currentState, systemMuted |-> systemMuted,
          lastAlertTime |-> lastAlertTime, lastSerialUpdate |-> lastSerialUpdate,
          clock |-> clock, now |-> now, button |-> button,
          temperature |-> temperature, humidity |-> humidity,
          buzzerCmds |-> buzzerCmds, serial |-> serial, lastTone |-> lastTone,
          buzzer |-> buzzer, pressed |-> pressed]

\* The buzzer is <<"off", 0>>, <<"on", 0>> (a tone without duration, sounding
\* until noTone) or <<"timed", ms>> (a tone that stops by itself in ms more
\* milliseconds).
BuzzerOff == <<"off", 0>>
Sounding(b) == b[1] # "off"
BuzzerAfter(b, ms) ==
  IF b[1] = "timed"
    THEN IF b[2] <= ms THEN BuzzerOff ELSE <<"timed", b[2] - ms>>
    ELSE b

millis(s) == s.clock

\* delay(ms): the clock advances, a timed tone runs out; nothing is read
\* delay as it would be if the wait polled the mute button
delay_PollsButton(s, ms) ==
  [s EXCEPT !.clock = Add32(@, U32(ms)), !.buzzer = BuzzerAfter(@, ms),
            !.systemMuted = @ \/ s.pressed]

delay(s, ms) ==
  [s EXCEPT !.clock = Add32(@, U32(ms)), !.buzzer = BuzzerAfter(@, ms)]
println(s, line) == [s EXCEPT !.serial = Append(@, line)]

\* tone(BUZZER_PIN, f, duration) and tone(BUZZER_PIN, f)
\* kind "chime" is tone(8, 1500, 200), "beep" tone(8, 1000, 200), "long"
\* tone(8, 1000)
tone(s, kind) ==
  [s EXCEPT !.buzzerCmds = Append(@, kind), !.lastTone = kind,
            !.buzzer = IF kind = "long" THEN <<"on", 0>>
                                        ELSE <<"timed", TONE_DURATION>>]
noTone(s) == [s EXCEPT !.buzzerCmds = Append(@, "noTone"), !.buzzer = BuzzerOff]

Tones == {"chime", "beep", "long"}
ToneFired(cmds) == \E i \in 1..Len(cmds) : cmds[i] \in Tones

soundChime(s) == tone(s, "chime")
soundBeep(s) == tone(s, "beep")
\* soundLongBeep as it would be without its noTone
soundLongBeep_NoStop(s) == delay(tone(s, "long"), LONG_BEEP_DELAY)

soundLongBeep(s) == noTone(delay(tone(s, "long"), LONG_BEEP_DELAY))

stopAlerts(s) == noTone(s)
showMutedMessage(s) == println(s, "SILENT MODE")

\* checkButton as it would be if the flag followed the button level
checkButton_FollowsButton(s, level) ==
  IF level = LOW
    THEN println([s EXCEPT !.systemMuted = TRUE], "MUTED BY USER")
    ELSE [s EXCEPT !.systemMuted = FALSE]

\* checkButton as it would be if a high level were taken for the press
checkButton_ActiveHigh(s, level) ==
  IF level = HIGH
    THEN println([s EXCEPT !.systemMuted = TRUE], "MUTED BY USER")
    ELSE s

checkButton(s, level) ==
  IF level = LOW
    THEN println([s EXCEPT !.systemMuted = TRUE], "MUTED BY USER")
    ELSE s

readSensors(s, temp, hum, readTime) ==
  LET s1 == delay([s EXCEPT !.temperature = temp, !.humidity = hum], readTime)
  IN IF isnan(temp) \/ isnan(hum)
       THEN delay(println(s1, "ERROR"), SENSOR_FAIL_DELAY)
       ELSE s1

updateDashboard(s) == println(s, "DASHBOARD")

\* evaluateState as it would be with `temp < TEMP_OPTIMAL_HIGH`
evaluateState_OptimalHighExclusive(s, temp) ==
  IF FGe(temp, TEMP_OPTIMAL_LOW) /\ FLt(temp, TEMP_OPTIMAL_HIGH)
    THEN [s EXCEPT !.currentState = "OPTIMAL"]
  ELSE IF FEq(temp, TEMP_CLOSE)
    THEN [s EXCEPT !.currentState = "CLOSE"]
  ELSE IF (FGe(temp, TEMP_NEAR_LOW) /\ FLt(temp, TEMP_OPTIMAL_LOW))
            \/ (FGe(temp, TEMP_OPTIMAL_HIGH) /\ FLe(temp, TEMP_NEAR_HIGH))
    THEN [s EXCEPT !.currentState = "NEAR"]
  ELSE [s EXCEPT !.currentState = "IDLE"]

\* evaluateState as it would be with `temp > TEMP_NEAR_LOW`
evaluateState_NearLowExclusive(s, temp) ==
  IF FGe(temp, TEMP_OPTIMAL_LOW) /\ FLe(temp, TEMP_OPTIMAL_HIGH)
    THEN [s EXCEPT !.currentState = "OPTIMAL"]
  ELSE IF FEq(temp, TEMP_CLOSE)
    THEN [s EXCEPT !.currentState = "CLOSE"]
  ELSE IF (FGt(temp, TEMP_NEAR_LOW) /\ FLt(temp, TEMP_OPTIMAL_LOW))
            \/ (FGt(temp, TEMP_OPTIMAL_HIGH) /\ FLe(temp, TEMP_NEAR_HIGH))
    THEN [s EXCEPT !.currentState = "NEAR"]
  ELSE [s EXCEPT !.currentState = "IDLE"]

evaluateState(s, temp) ==
  IF FGe(temp, TEMP_OPTIMAL_LOW) /\ FLe(temp, TEMP_OPTIMAL_HIGH)
    THEN [s EXCEPT !.currentState = "OPTIMAL"]
  ELSE IF FEq(temp, TEMP_CLOSE)
    THEN [s EXCEPT !.currentState = "CLOSE"]
  ELSE IF (FGe(temp, TEMP_NEAR_LOW) /\ FLt(temp, TEMP_OPTIMAL_LOW))
            \/ (FGt(temp, TEMP_OPTIMAL_HIGH) /\ FLe(temp, TEMP_NEAR_HIGH))
    THEN [s EXCEPT !.currentState = "NEAR"]
  ELSE [s EXCEPT !.currentState = "IDLE"]

\* playAlert as it would be with `now - lastAlertTime > ALERT_INTERVAL`
playAlert_StrictCooldown(s, state) ==
  LET t == millis(s)
      Due == Sub32(t, s.lastAlertTime) # U32(ALERT_INTERVAL)
               /\ Ge32(Sub32(t, s.lastAlertTime), U32(ALERT_INTERVAL))
  IN IF state = "OPTIMAL" /\ Due
       THEN [println(soundChime(s), "Optimal Temp") EXCEPT !.lastAlertTime = t]
     ELSE IF state = "CLOSE" /\ Due
       THEN [println(soundBeep(s), "Close") EXCEPT !.lastAlertTime = t]
     ELSE IF state = "NEAR"
       THEN [soundLongBeep(println(s, "Near Optimal")) EXCEPT !.lastAlertTime = t]
     ELSE IF state = "IDLE"
       THEN noTone(s)
     ELSE s

\* playAlert as it would be with the cooldown test on the Near branch too
playAlert_NearGated(s, state) ==
  LET t == millis(s)
      Due == Ge32(Sub32(t, s.lastAlertTime), U32(ALERT_INTERVAL))
  IN IF state = "OPTIMAL" /\ Due
       THEN [println(soundChime(s), "Optimal Temp") EXCEPT !.lastAlertTime = t]
     ELSE IF state = "CLOSE" /\ Due
       THEN [println(soundBeep(s), "Close") EXCEPT !.lastAlertTime = t]
     ELSE IF state = "NEAR" /\ Due
       THEN [soundLongBeep(println(s, "Near Optimal")) EXCEPT !.lastAlertTime = t]
     ELSE IF state = "IDLE"
       THEN noTone(s)
     ELSE s

\* playAlert as it would be with CLOSE keeping no cooldown
playAlert_CloseUngated(s, state) ==
  LET t == millis(s)
  IN IF state = "OPTIMAL" /\ Ge32(Sub32(t, s.lastAlertTime), U32(ALERT_INTERVAL))
       THEN [println(soundChime(s), "Optimal Temp") EXCEPT !.lastAlertTime = t]
     ELSE IF state = "CLOSE"
       THEN [println(soundBeep(s), "Close") EXCEPT !.lastAlertTime = t]
     ELSE IF state = "NEAR"
       THEN [soundLongBeep(println(s, "Near Optimal")) EXCEPT !.lastAlertTime = t]
     ELSE IF state = "IDLE"
       THEN noTone(s)
     ELSE s

\* playAlert as it would be if Near stamped the clock read after its beep
playAlert_StampAfterBeep(s, state) ==
  LET t == millis(s)
  IN IF state = "OPTIMAL" /\ Ge32(Sub32(t, s.lastAlertTime), U32(ALERT_INTERVAL))
       THEN [println(soundChime(s), "Optimal Temp") EXCEPT !.lastAlertTime = t]
     ELSE IF state = "CLOSE" /\ Ge32(Sub32(t, s.lastAlertTime), U32(ALERT_INTERVAL))
       THEN [println(soundBeep(s), "Close") EXCEPT !.lastAlertTime = t]
     ELSE IF state = "NEAR"
       THEN LET after == soundLongBeep(println(s, "Near Optimal"))
            IN [after EXCEPT !.lastAlertTime = millis(after)]
     ELSE IF state = "IDLE"
       THEN noTone(s)
     ELSE s

\* playAlert as it would be without the noTone of the Idle branch
playAlert_IdleNoStop(s, state) ==
  LET t == millis(s)
  IN IF state = "OPTIMAL" /\ Ge32(Sub32(t, s.lastAlertTime), U32(ALERT_INTERVAL))
       THEN [println(soundChime(s), "Optimal Temp") EXCEPT !.lastAlertTime = t]
     ELSE IF state = "CLOSE" /\ Ge32(Sub32(t, s.lastAlertTime), U32(ALERT_INTERVAL))
       THEN [println(soundBeep(s), "Close") EXCEPT !.lastAlertTime = t]
     ELSE IF state = "NEAR"
       THEN [soundLongBeep(println(s, "Near Optimal")) EXCEPT !.lastAlertTime = t]
     ELSE s

\* playAlert as it would be if the Idle branch cleared the alert timer
playAlert_IdleResets(s, state) ==
  LET t == millis(s)
  IN IF state = "OPTIMAL" /\ Ge32(Sub32(t, s.lastAlertTime), U32(ALERT_INTERVAL))
       THEN [println(soundChime(s), "Optimal Temp") EXCEPT !.lastAlertTime = t]
     ELSE IF state = "CLOSE" /\ Ge32(Sub32(t, s.lastAlertTime), U32(ALERT_INTERVAL))
       THEN [println(soundBeep(s), "Close") EXCEPT !.lastAlertTime = t]
     ELSE IF state = "NEAR"
       THEN [soundLongBeep(println(s, "Near Optimal")) EXCEPT !.lastAlertTime = t]
     ELSE IF state = "IDLE"
       THEN [noTone(s) EXCEPT !.lastAlertTime = U32(0)]
     ELSE s

playAlert(s, state) ==
  LET t == millis(s)
  IN IF state = "OPTIMAL" /\ Ge32(Sub32(t, s.lastAlertTime), U32(ALERT_INTERVAL))
       THEN [println(soundChime(s), "Optimal Temp") EXCEPT !.lastAlertTime = t]
     ELSE IF state = "CLOSE" /\ Ge32(Sub32(t, s.lastAlertTime), U32(ALERT_INTERVAL))
       THEN [println(soundBeep(s), "Close") EXCEPT !.lastAlertTime = t]
     ELSE IF state = "NEAR"
       THEN [soundLongBeep(println(s, "Near Optimal")) EXCEPT !.lastAlertTime = t]
     ELSE IF state = "IDLE"
       THEN noTone(s)
     ELSE s

\* loop() from line 51 on, systemMuted true
loopMuted(s) == delay(showMutedMessage(stopAlerts(s)), MUTED_DELAY)

\* loop() from line 58 on as it would be with the dashboard printed each cycle
loopUnmuted_AlwaysPrints(s, temp, hum, readTime) ==
  LET s1 == readSensors(s, temp, hum, readTime)
      t  == millis(s1)
      s2 == [s1 EXCEPT !.now = t]
      s3 == [updateDashboard(s2) EXCEPT !.lastSerialUpdate = t]
      s4 == evaluateState(s3, s3.temperature)
      s5 == playAlert(s4, s4.currentState)
  IN delay(s5, CYCLE_DELAY)

\* loop() from line 58 on, systemMuted false
loopUnmuted(s, temp, hum, readTime) ==
  LET s1 == readSensors(s, temp, hum, readTime)
      t  == millis(s1)
      s2 == [s1 EXCEPT !.now = t]
      s3 == IF Ge32(Sub32(t, s2.lastSerialUpdate), U32(SERIAL_REFRESH))
              THEN [updateDashboard(s2) EXCEPT !.lastSerialUpdate = t]
              ELSE s2
      s4 == evaluateState(s3, s3.temperature)
      s5 == playAlert(s4, s4.currentState)
  IN delay(s5, CYCLE_DELAY)

\* loop() as it would be without the `return` of the muted branch
loopBody_NoReturn(s, level, temp, hum, readTime) ==
  LET s0 == [s EXCEPT !.buzzerCmds = <<>>, !.serial = <<>>, !.button = level,
                      !.temperature = temp, !.humidity = hum]
      s1 == checkButton(s0, level)
  IN IF s1.systemMuted
       THEN loopUnmuted(loopMuted(s1), temp, hum, readTime)
       ELSE loopUnmuted(s1, temp, hum, readTime)

\* one call of loop(): the outputs kept in the state are those of this call
loopBody(s, level, temp, hum, readTime) ==
  LET s0 == [s EXCEPT !.buzzerCmds = <<>>, !.serial = <<>>, !.button = level,
                      !.temperature = temp, !.humidity = hum]
      s1 == checkButton(s0, level)
  IN IF s1.systemMuted
       THEN loopMuted(s1)
       ELSE loopUnmuted(s1, temp, hum, readTime)

Assign(r) ==
  /\ currentState' = r.currentState
  /\ systemMuted' = r.systemMuted
  /\ lastAlertTime' = r.lastAlertTime
  /\ lastSerialUpdate' = r.lastSerialUpdate
  /\ clock' = r.clock
  /\ now' = r.now
  /\ button' = r.button
  /\ temperature' = r.temperature
  /\ humidity' = r.humidity
  /\ buzzerCmds' = r.buzzerCmds
  /\ serial' = r.serial
  /\ lastTone' = r.lastTone
  /\ buzzer' = r.buzzer
  /\ pressed' = r.pressed

-----------------------------------------------------------------------------
(* The end-to-end scenario: samples 23.0, 25.0, 21.0, 30.0, Invalid in      *)
(* consecutive unmuted cycles whose sensor read and post-cycle delay take  *)
(* one second together, begun when lastAlertTime is 0 and the cooldown of  *)
(* the first alert has run out.  ScenarioNext counts how many cycles of it *)
(* have just run, given the state s a cycle starts in and its inputs.      *)

ScenarioSamples == <<Deg(23), Deg(25), Deg(21), Deg(30), NaN>>

ScenarioNext(k, s, level, temp, hum, readTime) ==
  LET Matches(i) ==
        /\ ~s.systemMuted
        /\ level = HIGH
        /\ readTime + CYCLE_DELAY = 1000
        /\ temp = ScenarioSamples[i]
        /\ (i < Len(ScenarioSamples) => ~isnan(hum))
      Starts ==
        /\ Matches(1)
        /\ s.lastAlertTime = U32(0)
        /\ Ge32(Add32(s.clock, U32(readTime)), U32(ALERT_INTERVAL))
  IN IF k >= 1 /\ k < Len(ScenarioSamples) /\ Matches(k + 1) THEN k + 1
     ELSE IF Starts THEN 1
     ELSE 0

-----------------------------------------------------------------------------
(* The sketch: setup() then loop() forever *)

Init ==
  /\ currentState = "IDLE"
  /\ systemMuted = FALSE
  /\ lastAlertTime = U32(0)
  /\ lastSerialUpdate = U32(0)
  /\ clock = U32(0)
  /\ now = U32(0)
  /\ button = HIGH
  /\ temperature = NaN
  /\ humidity = NaN
  /\ buzzerCmds = <<>>
  /\ serial = <<"System Ready">>
  /\ lastTone = "none"
  /\ buzzer = BuzzerOff
  /\ pressed = FALSE
  /\ held = FALSE
  /\ epoch = U32(0)
  /\ mutedCycles = 0
  /\ scenario = 0
  /\ afterNear = FALSE
  /\ pc = "loop"

loop ==
  /\ pc = "loop"
  /\ Lt32(Sub32(clock, epoch), U32(MaxClock))
  /\ mutedCycles < MaxMutedCycles
  /\ \E level \in ButtonLevels, temp \in Temperatures, hum \in Humidities,
        readTime \in SensorReadTimes, during \in BOOLEAN :
       /\ held => level = LOW
       /\ during => (level = HIGH /\ ~systemMuted)
       /\ Assign(loopBody([State EXCEPT !.pressed = during],
                          level, temp, hum, readTime))
       /\ scenario' = ScenarioNext(scenario, State, level, temp, hum, readTime)
  /\ mutedCycles' = IF systemMuted' THEN mutedCycles + 1 ELSE mutedCycles
  /\ afterNear' = (buzzerCmds = <<"long", "noTone">>)
  /\ UNCHANGED <<pc, held, epoch>>

Next == loop

Spec == Init /\ [][Next]_vars

-----------------------------------------------------------------------------
(* The sketch about to see millis() wrap: it has run Idle cycles of one    *)
(* second since boot, so no alert has fired yet, and the cycle that just   *)
(* ended printed the dashboard; the clock is WrapLead ms short of 2^32.    *)
(* WrapElapsed of the MaxClock milliseconds that are modelled have passed. *)

WrapLead == 3000
WrapElapsed == 6000

InitWrap ==
  /\ currentState = "IDLE"
  /\ systemMuted = FALSE
  /\ lastAlertTime = U32(0)
  /\ clock = Sub32(U32(0), U32(WrapLead))
  /\ now = Sub32(clock, U32(CYCLE_DELAY))
  /\ lastSerialUpdate = now
  /\ button = HIGH
  /\ temperature = Deg(30)
  /\ humidity = Deg(50)
  /\ buzzerCmds = <<"noTone">>
  /\ serial = <<"DASHBOARD">>
  /\ lastTone = "none"
  /\ buzzer = BuzzerOff
  /\ pressed = FALSE
  /\ held = FALSE
  /\ epoch = Sub32(clock, U32(WrapElapsed))
  /\ mutedCycles = 0
  /\ scenario = 0
  /\ afterNear = FALSE
  /\ pc = "loop"

SpecWrap == InitWrap /\ [][Next]_vars

-----------------------------------------------------------------------------
(* The sketch and a user who at some moment presses the button and keeps   *)
(* it down.  The run starts two alert intervals after boot, after Idle     *)
(* cycles of one second, the last of which printed the dashboard.  loop()  *)
(* is called again as soon as it returns, and every call returns: its      *)
(* waits are delays of fixed length.  Hence the weak fairness of loop.     *)

InitLive ==
  /\ currentState = "IDLE"
  /\ systemMuted = FALSE
  /\ lastAlertTime = U32(0)
  /\ clock = U32(2 * ALERT_INTERVAL)
  /\ now = Sub32(clock, U32(CYCLE_DELAY))
  /\ lastSerialUpdate = now
  /\ button = HIGH
  /\ temperature = Deg(30)
  /\ humidity = Deg(50)
  /\ buzzerCmds = <<"noTone">>
  /\ serial = <<"DASHBOARD">>
  /\ lastTone = "none"
  /\ buzzer = BuzzerOff
  /\ pressed = FALSE
  /\ held = FALSE
  /\ epoch = U32(0)
  /\ mutedCycles = 0
  /\ scenario = 0
  /\ afterNear = FALSE
  /\ pc = "loop"

\* the user starts to hold the button down, while loop() will be called again
Hold ==
  /\ pc = "loop"
  /\ Lt32(Sub32(clock, epoch), U32(MaxClock))
  /\ mutedCycles < MaxMutedCycles
  /\ ~held
  /\ held' = TRUE
  /\ UNCHANGED <<currentState, systemMuted, lastAlertTime, lastSerialUpdate,
                 clock, now, button, temperature, humidity, buzzerCmds,
                 serial, lastTone, buzzer, pressed, epoch, mutedCycles,
                 scenario, afterNear, pc>>

NextLive == loop \/ Hold

SpecLive == InitLive /\ [][NextLive]_vars /\ WF_vars(loop)

-----------------------------------------------------------------------------
(* evaluateState alone: called once on each temperature of a grid of       *)
(* hundredths of a degree, from each state it can be called in.            *)

GridLow == 1900
GridHigh == 2700

InitClassify ==
  /\ currentState \in AlertState \ {"MUTE"}
  /\ temperature \in {Centi(v) : v \in GridLow..GridHigh}
  /\ systemMuted = FALSE
  /\ lastAlertTime = U32(0)
  /\ lastSerialUpdate = U32(0)
  /\ clock = U32(0)
  /\ now = U32(0)
  /\ button = HIGH
  /\ humidity = Deg(50)
  /\ buzzerCmds = <<>>
  /\ serial = <<>>
  /\ lastTone = "none"
  /\ buzzer = BuzzerOff
  /\ pressed = FALSE
  /\ held = FALSE
  /\ epoch = U32(0)
  /\ mutedCycles = 0
  /\ scenario = 0
  /\ afterNear = FALSE
  /\ pc = "call"

evaluateStateCall ==
  /\ pc = "call"
  /\ Assign(evaluateState(State, temperature))
  /\ pc' = "done"
  /\ UNCHANGED <<mutedCycles, scenario, afterNear, held, epoch>>

NextClassify == evaluateStateCall

SpecClassify == InitClassify /\ [][NextClassify]_vars

-----------------------------------------------------------------------------
(* playAlert alone: called once in each state, at each clock value and     *)
(* with each lastAlertTime of a set that holds the values around the       *)
(* cooldown and around the wrap of the clock.                              *)

AlertTimes ==
  {U32(0), U32(1), U32(4999), U32(5000), U32(5001), U32(10000),
   Sub32(U32(0), U32(5000)), ULONG_MAX}

InitAlert ==
  /\ currentState \in AlertState \ {"MUTE"}
  /\ lastAlertTime \in AlertTimes
  /\ clock \in AlertTimes
  /\ systemMuted = FALSE
  /\ lastSerialUpdate = U32(0)
  /\ now = U32(0)
  /\ button = HIGH
  /\ temperature = Deg(30)
  /\ humidity = Deg(50)
  /\ buzzerCmds = <<>>
  /\ serial = <<>>
  /\ lastTone = "none"
  /\ buzzer = BuzzerOff
  /\ pressed = FALSE
  /\ held = FALSE
  /\ epoch = U32(0)
  /\ mutedCycles = 0
  /\ scenario = 0
  /\ afterNear = FALSE
  /\ pc = "call"

playAlertCall ==
  /\ pc = "call"
  /\ Assign(playAlert([State EXCEPT !.now = clock], currentState))
  /\ pc' = "done"
  /\ UNCHANGED <<mutedCycles, scenario, afterNear, held, epoch>>

NextAlert == playAlertCall

SpecAlert == InitAlert /\ [][NextAlert]_vars

-----------------------------------------------------------------------------
(* Properties of a cycle.  Every step of Spec is one call of loop(); the   *)
(* primed variables are its inputs, its outputs and the state it leaves.   *)

InvalidSample(temp, hum) == isnan(temp) \/ isnan(hum)
Gated == {"OPTIMAL", "CLOSE"}

\* C1: in every unmuted cycle whose sample is invalid (temperature NaN or
\* humidity NaN), no tone is started and lastAlertTime is left as it was.
C1_NoAlertOnInvalidSample ==
  [][(~systemMuted' /\ InvalidSample(temperature', humidity'))
       => (~ToneFired(buzzerCmds') /\ lastAlertTime' = lastAlertTime)]_vars

\* C2: in every unmuted cycle whose sample is invalid, currentState is left
\* as it was.
C2_StateKeptOnInvalidSample ==
  [][(~systemMuted' /\ InvalidSample(temperature', humidity'))
       => currentState' = currentState]_vars

\* C3: a cycle that runs muted (the cycle of the button press included)
\* leaves currentState and lastAlertTime as they were and sends the buzzer
\* the stop command and nothing else, whatever sample the sensor holds.
C3_MutedCycleInert ==
  [][systemMuted'
       => /\ currentState' = currentState
          /\ lastAlertTime' = lastAlertTime
          /\ lastTone' = lastTone
          /\ buzzerCmds' = <<"noTone">>]_vars

\* the cycle of the button press, with a sample that would classify as Idle
\* while the state it found is kept
C3_Witness ==
  /\ systemMuted
  /\ mutedCycles = 1
  /\ button = LOW
  /\ temperature = Deg(30)
  /\ currentState = "OPTIMAL"
  /\ lastTone = "chime"
  /\ buzzerCmds = <<"noTone">>

\* C4: systemMuted is false initially, becomes true only in a cycle that
\* reads the button low, and stays true once it is true.
C4_MuteSticky ==
  /\ ~systemMuted
  /\ [][/\ systemMuted => systemMuted'
        /\ (~systemMuted /\ systemMuted') => button' = LOW]_vars

\* a muted cycle that read the button high again
C4_Witness == systemMuted /\ mutedCycles = 2 /\ button = HIGH

\* C5: after a chime or short beep fired at time T (lastAlertTime = T), a
\* playAlert call in state Optimal or Close less than ALERT_INTERVAL after T
\* starts no tone and keeps lastAlertTime, and a call exactly ALERT_INTERVAL
\* after T starts a tone and sets lastAlertTime to the time of the call.
C5_CooldownLaw ==
  [][(lastTone \in {"chime", "beep"} /\ ~systemMuted' /\ currentState' \in Gated)
       => LET elapsed == Sub32(now', lastAlertTime)
          IN /\ Lt32(elapsed, U32(ALERT_INTERVAL))
                  => (~ToneFired(buzzerCmds') /\ lastAlertTime' = lastAlertTime)
             /\ elapsed = U32(ALERT_INTERVAL)
                  => (ToneFired(buzzerCmds') /\ lastAlertTime' = now')]_vars

\* a call in a gated state ALERT_INTERVAL - 1 after a gated alert: no tone
C5_Witness ==
  /\ ~systemMuted
  /\ currentState \in Gated
  /\ lastTone \in {"chime", "beep"}
  /\ Sub32(now, lastAlertTime) = U32(ALERT_INTERVAL - 1)
  /\ ~ToneFired(buzzerCmds)

\* C6: a playAlert call in state Near starts the long beep, stops it, and
\* sets lastAlertTime to the clock value read at the start of the call,
\* whatever lastAlertTime and the clock are.
C6_NearAlwaysFires ==
  [][(pc = "call" /\ currentState = "NEAR")
       => /\ buzzerCmds' = <<"long", "noTone">>
          /\ lastTone' = "long"
          /\ lastAlertTime' = clock
          /\ clock' = Add32(clock, U32(LONG_BEEP_DELAY))]_vars

\* a Near call made at clock 5000: the stamp is the time before the beep
C6_Witness ==
  /\ pc = "done"
  /\ currentState = "NEAR"
  /\ buzzerCmds = <<"long", "noTone">>
  /\ lastAlertTime = U32(5000)
  /\ clock = U32(10000)

\* C7, as claimed: the scenario yields Optimal with the chime, Close with
\* the short beep, Near with the long beep, Idle with the stop command, and
\* for the invalid sample no state change, no tone and the warning.
Logged(line) == \E i \in 1..Len(serial) : serial[i] = line

C7_ScenarioAsClaimed ==
  /\ scenario = 1 => (currentState = "OPTIMAL" /\ buzzerCmds = <<"chime">>)
  /\ scenario = 2 => (currentState = "CLOSE" /\ buzzerCmds = <<"beep">>)
  /\ scenario = 3 => (currentState = "NEAR" /\ buzzerCmds = <<"long", "noTone">>)
  /\ scenario = 4 => (currentState = "IDLE" /\ buzzerCmds = <<"noTone">>)
  /\ scenario = 5 => (currentState = "IDLE" /\ ~ToneFired(buzzerCmds)
                        /\ Logged("ERROR"))

\* C7, amended: as claimed, but the Close cycle, one second after the
\* chime, starts no tone and keeps the chime's lastAlertTime.
C7_Scenario ==
  /\ scenario = 1 => (currentState = "OPTIMAL" /\ buzzerCmds = <<"chime">>
                        /\ lastAlertTime = now)
  /\ scenario = 2 => (currentState = "CLOSE" /\ buzzerCmds = <<>>
                        /\ Sub32(now, lastAlertTime) = U32(1000))
  /\ scenario = 3 => (currentState = "NEAR" /\ buzzerCmds = <<"long", "noTone">>
                        /\ lastAlertTime = now)
  /\ scenario = 4 => (currentState = "IDLE" /\ buzzerCmds = <<"noTone">>)
  /\ scenario = 5 => (currentState = "IDLE" /\ ~ToneFired(buzzerCmds)
                        /\ Logged("ERROR"))

\* the scenario has run to its fifth cycle
C7_Witness == scenario = 5 /\ isnan(temperature) /\ ~systemMuted

-----------------------------------------------------------------------------
(* Properties of evaluateState, over the grid *)

InRange(x, lo, hi) == ~isnan(x) /\ lo <= x[2] /\ x[2] <= hi

\* C8: evaluateState yields Optimal iff 22 <= t <= 24, Close iff t = 25
\* exactly, Idle iff t < 20 or t > 26, and never Mute.
C8_ClassifyTable ==
  pc = "done"
    => /\ currentState = "OPTIMAL" <=> InRange(temperature, 2200, 2400)
       /\ currentState = "CLOSE" <=> temperature = Centi(2500)
       /\ currentState = "IDLE" <=> (temperature[2] < 2000 \/ temperature[2] > 2600)
       /\ currentState # "MUTE"

\* 25.01 degrees is not Close
C8_Witness ==
  pc = "done" /\ temperature = Centi(2501) /\ currentState = "NEAR"

\* C9, as claimed: every t in [20, 22) or (24, 26] yields Near.
C9_NearAsClaimed ==
  (pc = "done" /\ (InRange(temperature, 2000, 2199)
                     \/ InRange(temperature, 2401, 2600)))
    => currentState = "NEAR"

\* C9, amended: every t in [20, 22) or (24, 26] other than 25 exactly
\* yields Near.
C9_Near ==
  (pc = "done" /\ temperature # Centi(2500)
     /\ (InRange(temperature, 2000, 2199) \/ InRange(temperature, 2401, 2600)))
    => currentState = "NEAR"

\* 20.00 degrees, the lower end of the band, is Near
C9_Witness ==
  pc = "done" /\ temperature = Centi(2000) /\ currentState = "NEAR"

-----------------------------------------------------------------------------

\* C10: from the cycle of the button press on currentState is MUTE, and it
\* is MUTE in no state before the press.
C10_MuteStateHeld == systemMuted <=> currentState = "MUTE"

-----------------------------------------------------------------------------
(* Properties of the alert timer *)

\* C11, as claimed: across every step the new value of lastAlertTime is
\* greater than or equal to the previous one, millis() wrapping modulo 2^32.
C11_TimerMonotone == [][Ge32(lastAlertTime', lastAlertTime)]_vars

\* C11, amended: across every step whose clock reading is not below
\* lastAlertTime (millis() has not wrapped since that stamp), the new value
\* of lastAlertTime is greater than or equal to the previous one.
C11_TimerMonotoneUntilWrap ==
  [][Ge32(now', lastAlertTime) => Ge32(lastAlertTime', lastAlertTime)]_vars

\* a Near alert before the wrap: the timer moved forward, from 0 to the clock
C11_Witness ==
  /\ lastTone = "long"
  /\ serial = <<"Near Optimal">>
  /\ lastAlertTime = now
  /\ Ge32(now, Sub32(U32(0), U32(WrapLead)))

\* checkButton, readSensors, evaluateState, updateDashboard and stopAlerts,
\* called in the current state, leave lastAlertTime as it is
OthersKeepTimer ==
  /\ \A level \in ButtonLevels :
       checkButton(State, level).lastAlertTime = lastAlertTime
  /\ \A temp \in Temperatures, hum \in Humidities, readTime \in SensorReadTimes :
       readSensors(State, temp, hum, readTime).lastAlertTime = lastAlertTime
  /\ \A temp \in Temperatures :
       evaluateState(State, temp).lastAlertTime = lastAlertTime
  /\ updateDashboard(State).lastAlertTime = lastAlertTime
  /\ stopAlerts(State).lastAlertTime = lastAlertTime

\* C12: lastAlertTime changes only in an unmuted cycle whose playAlert call
\* starts a tone, and then to the clock read by that cycle; a cycle that is
\* muted, or Idle, or Optimal or Close within the cooldown leaves it as it
\* was; and no function other than playAlert writes it.
C12_TimerFrame ==
  /\ []OthersKeepTimer
  /\ [][/\ lastAlertTime' # lastAlertTime
             => (~systemMuted' /\ ToneFired(buzzerCmds') /\ lastAlertTime' = now')
        /\ (\/ systemMuted'
            \/ currentState' = "IDLE"
            \/ (currentState' \in Gated
                  /\ Lt32(Sub32(now', lastAlertTime), U32(ALERT_INTERVAL))))
             => lastAlertTime' = lastAlertTime]_vars

\* an Idle cycle after an alert: the stamp of the alert is kept
C12_Witness ==
  /\ ~systemMuted
  /\ currentState = "IDLE"
  /\ buzzerCmds = <<"noTone">>
  /\ lastTone = "long"
  /\ lastAlertTime # U32(0)
  /\ lastAlertTime # now

-----------------------------------------------------------------------------
(* Properties of the buzzer *)

\* a second stop command changes nothing but the record of the commands sent
StopTwiceAsOnce ==
  LET once == stopAlerts(State)
      twice == stopAlerts(once)
  IN /\ ~Sounding(once.buzzer)
     /\ ~Sounding(twice.buzzer)
     /\ [twice EXCEPT !.buzzerCmds = <<>>] = [once EXCEPT !.buzzerCmds = <<>>]

OnlyStopSent(cmds) == cmds = <<"noTone">>

\* C13: an unmuted cycle in state Idle sends the stop command and starts no
\* tone; a stop command after a stop command (two Idle or two muted cycles
\* in a row, or stopAlerts called twice) leaves the buzzer stopped and the
\* alert state (lastAlertTime, the last tone) as it was.
C13_SilenceIdempotent ==
  /\ []StopTwiceAsOnce
  /\ [][/\ (~systemMuted' /\ currentState' = "IDLE")
             => (OnlyStopSent(buzzerCmds') /\ ~Sounding(buzzer'))
        /\ (OnlyStopSent(buzzerCmds) /\ OnlyStopSent(buzzerCmds'))
             => /\ ~Sounding(buzzer')
                /\ lastAlertTime' = lastAlertTime
                /\ lastTone' = lastTone]_vars

\* the second muted cycle in a row, after a long beep had sounded
C13_Witness ==
  /\ mutedCycles = 2
  /\ OnlyStopSent(buzzerCmds)
  /\ buzzer = BuzzerOff
  /\ lastTone = "long"

\* C19: at the start of every loop() call the buzzer is silent.
C19_SilentAtCycleStart == pc = "loop" => ~Sounding(buzzer)

\* the cycle of a chime has ended: the 200 ms tone ran out in the 300 ms delay
C19_Witness ==
  /\ buzzerCmds = <<"chime">>
  /\ lastTone = "chime"
  /\ buzzer = BuzzerOff
  /\ Sub32(clock, now) = U32(CYCLE_DELAY)

-----------------------------------------------------------------------------
(* Properties of the cooldown shared by the alerts *)

\* C17: every tone stamps lastAlertTime with the clock its cycle read, so
\* lastAlertTime is the start of the most recent alert of any kind; an
\* Optimal or Close alert fires only when at least ALERT_INTERVAL has passed
\* since it, and never in the first ALERT_INTERVAL after boot.
C17_SharedCooldown ==
  [][/\ (~systemMuted' /\ ToneFired(buzzerCmds')) => lastAlertTime' = now'
     /\ (~systemMuted' /\ currentState' \in Gated /\ ToneFired(buzzerCmds'))
          => /\ Ge32(Sub32(now', lastAlertTime), U32(ALERT_INTERVAL))
             /\ Ge32(Sub32(now', epoch), U32(ALERT_INTERVAL))]_vars

\* an Optimal cycle inside the cooldown begun by a Close alert: no chime
C17_Witness ==
  /\ ~systemMuted
  /\ currentState = "OPTIMAL"
  /\ lastTone = "beep"
  /\ buzzerCmds = <<>>
  /\ Lt32(Sub32(now, lastAlertTime), U32(ALERT_INTERVAL))

\* C18: when the last alert was the long beep of a Near cycle, the next
\* unmuted cycle that classifies its sample as Optimal or Close (the cycle
\* right after the Near cycle, or a later one after silent cycles) passes
\* the cooldown test and fires its alert.
C18_NearNeverDelays ==
  [][(lastTone = "long" /\ ~systemMuted' /\ currentState' \in Gated)
       => /\ Ge32(Sub32(now', lastAlertTime), U32(ALERT_INTERVAL))
          /\ ToneFired(buzzerCmds')
          /\ lastAlertTime' = now']_vars

\* a Close alert in the cycle after a Near cycle
C18_Witness ==
  /\ afterNear
  /\ ~systemMuted
  /\ currentState = "CLOSE"
  /\ buzzerCmds = <<"beep">>
  /\ lastAlertTime = now

-----------------------------------------------------------------------------
(* Properties of the dashboard *)

\* C14: a cycle prints the dashboard only when unmuted, at least
\* SERIAL_REFRESH after boot and at least SERIAL_REFRESH after
\* lastSerialUpdate, which it then sets to its clock; a cycle that prints no
\* dashboard keeps lastSerialUpdate, so lastSerialUpdate is the time of the
\* previous dashboard and two consecutive ones are SERIAL_REFRESH apart.
C14_DashboardRate ==
  [][/\ Logged("DASHBOARD")'
          => /\ ~systemMuted'
             /\ Ge32(Sub32(now', lastSerialUpdate), U32(SERIAL_REFRESH))
             /\ Ge32(Sub32(now', epoch), U32(SERIAL_REFRESH))
             /\ lastSerialUpdate' = now'
     /\ ~Logged("DASHBOARD")' => lastSerialUpdate' = lastSerialUpdate]_vars

\* an unmuted cycle 999 ms after a dashboard: none is printed
C14_Witness ==
  /\ ~systemMuted
  /\ ~Logged("DASHBOARD")
  /\ lastSerialUpdate # U32(0)
  /\ Sub32(now, lastSerialUpdate) = U32(SERIAL_REFRESH - 1)

-----------------------------------------------------------------------------
(* Properties of the button sampling *)

\* C15: a cycle that reads the button high keeps systemMuted, also when the
\* button is pressed and released inside the cycle's waits; and an unmuted
\* Near cycle holds its long beep for LONG_BEEP_DELAY whatever the button
\* does meanwhile: it ends LONG_BEEP_DELAY + CYCLE_DELAY after the clock it
\* read, having sent the tone and then the stop.
C15_SampledOnce ==
  [][/\ button' = HIGH => systemMuted' = systemMuted
     /\ pressed' => ~systemMuted'
     /\ (~systemMuted' /\ currentState' = "NEAR")
          => /\ buzzerCmds' = <<"long", "noTone">>
             /\ Sub32(clock', now') = U32(LONG_BEEP_DELAY + CYCLE_DELAY)]_vars

\* a Near cycle with a press inside its waits has run unmuted to its end
C15_Witness ==
  /\ pressed
  /\ button = HIGH
  /\ ~systemMuted
  /\ currentState = "NEAR"
  /\ buzzerCmds = <<"long", "noTone">>
  /\ Sub32(clock, now) = U32(LONG_BEEP_DELAY + CYCLE_DELAY)

-----------------------------------------------------------------------------
(* Liveness of the mute *)

\* C16: once the button is held low, the next loop() call sets systemMuted,
\* and eventually systemMuted is true and no cycle starts a tone, for ever.
C16_MuteLive ==
  /\ held ~> [](systemMuted /\ ~ToneFired(buzzerCmds))
  /\ [][(held /\ clock' # clock) => (systemMuted' /\ ~ToneFired(buzzerCmds'))]_vars

\* the button is held and the second muted cycle has run
C16_Witness ==
  /\ held
  /\ systemMuted
  /\ button = LOW
  /\ mutedCycles = 2
  /\ buzzerCmds = <<"noTone">>

=============================================================================
